---- MODULE Spec2Model ----
(***************************************************************************)
(* Model of the synthetic-dataset tools of Hotspot-detection:              *)
(*   generate_dataset.py       ring-target ("hotspot") generator           *)
(*   generate_yolo_dataset.py  polygon generator                           *)
(*   split_dataset.py          train/val partitioner                       *)
(*                                                                         *)
(* Each program is one record-valued variable; a behaviour runs one of     *)
(* the programs, the records of the other two stay idle.                   *)
(*                                                                         *)
(* Arithmetic.  Python floats are modelled by exact rationals, a pair      *)
(* <<num, den>> with den > 0.  int(f * r) for the decimal factors of the   *)
(* source is the floor of the exact product.  The "{:.6f}" formatting is   *)
(* modelled as rounding to an integer number of millionths.                *)
(***************************************************************************)
EXTENDS Integers, Sequences, FiniteSets, TLC

VARIABLES ring, poly, split

vars == <<ring, poly, split>>

(***************************************************************************)
(* Bounds of the model.                                                    *)
(***************************************************************************)
\* Canvases of every size 1..MaxDim x 1..MaxDim are explored, next to the
\* 640 x 640 canvas of the source.
MaxDim == 10

\* random.randint(lo, hi) is enumerated in full when the range has at most
\* MaxDraws values; a wider range is sampled at its upper end and at the
\* values of Picked.
MaxDraws == 13

(***************************************************************************)
(* Generic helpers.                                                        *)
(***************************************************************************)
Min(a, b) == IF a <= b THEN a ELSE b

Max(a, b) == IF a >= b THEN a ELSE b

Range(s) == {s[k] : k \in DOMAIN s}

\* random.randint(lo, hi): the set of values it can return; the empty set
\* stands for the ValueError Python raises on an empty range.  A wide range
\* is sampled at its upper end and at the values of picked.
randint(lo, hi, picked) ==
    IF lo > hi THEN {}
    ELSE IF hi - lo < MaxDraws THEN lo..hi
    ELSE {hi} \cup (picked \cap (lo..hi))

\* Rationals <<num, den>>, den > 0.
RatLe(p, q) == p[1] * q[2] <= q[1] * p[2]

RatLt(p, q) == p[1] * q[2] < q[1] * p[2]

RatEq(p, q) == p[1] * q[2] = q[1] * p[2]

\* The quotient num / den carried to k more decimal digits by long division
\* (the products stay small): <<digits so far, remainder>>.
RECURSIVE LongDivision(_, _, _, _)
LongDivision(q, rem, den, k) ==
    IF k = 0 THEN <<q, rem>>
    ELSE LongDivision(q * 10 + ((rem * 10) \div den), (rem * 10) % den, den, k - 1)

\* f"{x:.6f}": x rounded to the nearest millionth (ties to even), as the
\* integer number of millionths.  x >= 0.
Format6f(x) ==
    LET d == LongDivision(x[1] \div x[2], x[1] % x[2], x[2], 6)
        q == d[1]
        rem == d[2]
    IN  IF 2 * rem > x[2] THEN q + 1
        ELSE IF 2 * rem = x[2] THEN q + (q % 2)
        ELSE q

(***************************************************************************)
(* generate_dataset.py                                                     *)
(***************************************************************************)
IMG_WIDTH == 640

IMG_HEIGHT == 640

\* 5000 in the source; scaled down, the loop being the same for any count.
NUM_IMAGES == 2

NUM_CIRCLES == 5

CLASS_ID == 0

\* Indices of HOTSPOT_PALETTE (white, black, blue, red, yellow).
HOTSPOT_PALETTE == <<1, 2, 3, 4, 5>>

\* RADII_FACTORS = [1.0, 0.8, 0.6, 0.4, 0.2], in tenths.
RADII_FACTORS == <<10, 8, 6, 4, 2>>

\* random.sample(HOTSPOT_PALETTE, 5): a permutation of the palette.  Two
\* of the 120 permutations are explored.
ColourOrders == {<<1, 2, 3, 4, 5>>, <<4, 1, 5, 3, 2>>}

\* Values drawn from a wide range besides its upper end (the radius and the
\* centre of the 640 x 640 scenario of the specification).
RingPicked == {200, 320}

\* calculate_visible_bbox: cx -+ r_outer, clamped into the image.
calculate_visible_bbox(cx, cy, r_outer, img_w, img_h) ==
    <<Max(0, cx - r_outer), Max(0, cy - r_outer),
      Min(img_w, cx + r_outer), Min(img_h, cy + r_outer)>>

\* to_yolo_format with the centre taken as the sum of the two edges, not
\* their mean.
to_yolo_format_SumCentre(bbox, img_w, img_h) ==
    <<CLASS_ID,
      <<bbox[1] + bbox[3], img_w>>,
      <<bbox[2] + bbox[4], img_h>>,
      <<bbox[3] - bbox[1], img_w>>,
      <<bbox[4] - bbox[2], img_h>> >>

\* to_yolo_format: (class, x_center, y_center, width, height), the four
\* fields as fractions of the image size.
to_yolo_format(bbox, img_w, img_h) ==
    <<CLASS_ID,
      <<bbox[1] + bbox[3], 2 * img_w>>,
      <<bbox[2] + bbox[4], 2 * img_h>>,
      <<bbox[3] - bbox[1], img_w>>,
      <<bbox[4] - bbox[2], img_h>> >>

\* The label line of generate_dataset.py: the class and the four fields
\* with six decimals.
RingLabelLine(yolo_data) ==
    <<yolo_data[1], Format6f(yolo_data[2]), Format6f(yolo_data[3]),
      Format6f(yolo_data[4]), Format6f(yolo_data[5])>>

\* max_possible_r_outer = min(IMG_WIDTH, IMG_HEIGHT) // 2
MaxPossibleROuter(img_w, img_h) == Min(img_w, img_h) \div 2

\* The minimum radius without the fallback of lines 180-181.
MinROuter_NoFallback(img_w, img_h) == Max(1, Min(img_w, img_h) \div 10)

\* min_r_outer = max(1, int(0.1 * min(W, H))), lowered to the maximum when
\* it exceeds it.
MinROuter(img_w, img_h) ==
    LET nominal == Max(1, Min(img_w, img_h) \div 10)
    IN  IF nominal > MaxPossibleROuter(img_w, img_h)
        THEN MaxPossibleROuter(img_w, img_h)
        ELSE nominal

\* cx_min / cy_min = r_outer
CentreMin(r_outer) == r_outer

\* The centre range running up to the far edge of the image.
CentreMax_ToEdge(dim, r_outer) == dim

\* cx_max = IMG_WIDTH - r_outer, cy_max = IMG_HEIGHT - r_outer
CentreMax(dim, r_outer) == dim - r_outer

\* actual_radii: int(factor * r_outer) for each factor, zeros dropped.
ScaledRadii(r_outer) ==
    [k \in 1..Len(RADII_FACTORS) |-> (RADII_FACTORS[k] * r_outer) \div 10]

ActualRadii(r_outer) == SelectSeq(ScaledRadii(r_outer), LAMBDA r : r > 0)

\* The canvas: the circles drawn on it, in order, and the augmentations
\* applied to it.  The background colour is not modelled.
BlankImage == [circles |-> <<>>, warped |-> FALSE, blurred |-> FALSE]

RingIdle ==
    [pc |-> "idle", W |-> 0, H |-> 0, i |-> 0, generated_count |-> 0,
     r_outer |-> 0, cx |-> 0, cy |-> 0, actual_radii |-> <<>>,
     image |-> BlankImage, visible_bbox |-> <<>>, yolo_data |-> <<>>,
     images |-> <<>>, labels |-> <<>>, report |-> "none"]

Canvases == ((1..MaxDim) \X (1..MaxDim)) \cup {<<IMG_WIDTH, IMG_HEIGHT>>}

RingStart(w, h) == [RingIdle EXCEPT !.pc = "loop", !.W = w, !.H = h]

\* The locals of an iteration, dead once it ends.
RingLocals(r) ==
    [r EXCEPT !.r_outer = 0, !.cx = 0, !.cy = 0, !.actual_radii = <<>>,
              !.image = BlankImage, !.visible_bbox = <<>>,
              !.yolo_data = <<>>]

\* `continue`, or the end of the loop body: the next value of i.
RingNextIteration(r) == [RingLocals(r) EXCEPT !.pc = "loop", !.i = r.i + 1]

\* The loop without its break.
RingLoopContinues_NoBreak(i, generated_count) == i < NUM_IMAGES * 2

\* for i in range(NUM_IMAGES * 2): if generated_count >= NUM_IMAGES: break
\* i counts the iterations begun so far.
RingLoopContinues(i, generated_count) ==
    i < NUM_IMAGES * 2 /\ generated_count < NUM_IMAGES

RingLoop ==
    /\ ring.pc = "loop"
    /\ ring' = IF RingLoopContinues(ring.i, ring.generated_count)
               THEN [ring EXCEPT !.pc = "solve"]
               ELSE [ring EXCEPT !.pc = "report"]
    /\ UNCHANGED <<poly, split>>

\* Lines 168-198: the blank canvas, the outer radius and the centre.  An
\* empty range makes random.randint raise, which ends the run.
RingSolve ==
    /\ ring.pc = "solve"
    /\ LET lo == MinROuter(ring.W, ring.H)
           hi == MaxPossibleROuter(ring.W, ring.H)
       IN  \/ /\ randint(lo, hi, RingPicked) = {}
              /\ ring' = [ring EXCEPT !.pc = "crashed"]
           \/ \E r \in randint(lo, hi, RingPicked) :
                LET xs == randint(CentreMin(r), CentreMax(ring.W, r), RingPicked)
                    ys == randint(CentreMin(r), CentreMax(ring.H, r), RingPicked)
                IN  \/ /\ xs = {} \/ ys = {}
                       /\ ring' = [ring EXCEPT !.pc = "crashed", !.r_outer = r]
                    \/ \E x \in xs, y \in ys :
                         ring' = [ring EXCEPT !.pc = "radii", !.r_outer = r,
                                              !.cx = x, !.cy = y]
    /\ UNCHANGED <<poly, split>>

\* Lines 201-208: the scaled radii; the sample is given up when fewer than
\* NUM_CIRCLES of them are positive.
RingRadii ==
    /\ ring.pc = "radii"
    /\ LET radii == ActualRadii(ring.r_outer)
       IN  ring' = IF Len(radii) < NUM_CIRCLES
                   THEN RingNextIteration(ring)
                   ELSE [ring EXCEPT !.pc = "draw", !.actual_radii = radii]
    /\ UNCHANGED <<poly, split>>

\* The circles drawn innermost first.
DrawnCircles_InnerFirst(radii, colours) ==
    [k \in 1..Min(NUM_CIRCLES, Len(radii)) |->
        <<radii[Len(radii) + 1 - k], colours[((k - 1) % Len(colours)) + 1]>>]

\* Lines 210-215: the circles, outermost first, each in its colour.
DrawnCircles(radii, colours) ==
    [k \in 1..Min(NUM_CIRCLES, Len(radii)) |->
        <<radii[k], colours[((k - 1) % Len(colours)) + 1]>>]

RingDraw ==
    /\ ring.pc = "draw"
    /\ \E colours \in ColourOrders :
         ring' = [ring EXCEPT !.pc = "bbox",
                    !.image.circles = DrawnCircles(ring.actual_radii, colours)]
    /\ UNCHANGED <<poly, split>>

\* Line 218.
RingBBox ==
    /\ ring.pc = "bbox"
    /\ ring' = [ring EXCEPT !.pc = "warp",
                  !.visible_bbox = calculate_visible_bbox(
                      ring.cx, ring.cy, ring.r_outer, ring.W, ring.H)]
    /\ UNCHANGED <<poly, split>>

\* A perspective transform that also replaces the box of the sample.
RingWarp_MovesBox ==
    /\ ring.pc = "warp"
    /\ \E fire \in BOOLEAN :
         ring' = [ring EXCEPT !.pc = "blur", !.image.warped = fire,
                    !.visible_bbox = IF fire THEN <<0, 0, ring.W, ring.H>>
                                     ELSE @]
    /\ UNCHANGED <<poly, split>>

\* Lines 229-230: the perspective transform, with probability 0.3.
RingWarp ==
    /\ ring.pc = "warp"
    /\ \E fire \in BOOLEAN :
         ring' = [ring EXCEPT !.pc = "blur", !.image.warped = fire]
    /\ UNCHANGED <<poly, split>>

\* Lines 232-233: the blur, with probability 0.4.
RingBlur ==
    /\ ring.pc = "blur"
    /\ \E fire \in BOOLEAN :
         ring' = [ring EXCEPT !.pc = "yolo", !.image.blurred = fire]
    /\ UNCHANGED <<poly, split>>

\* Lines 235-238: the annotation; the sample is given up when its width or
\* height is not positive.
RingDiscards(yolo_data) ==
    \/ ~RatLt(<<0, 1>>, yolo_data[4])
    \/ ~RatLt(<<0, 1>>, yolo_data[5])

RingYolo ==
    /\ ring.pc = "yolo"
    /\ LET yolo_data == to_yolo_format(ring.visible_bbox, ring.W, ring.H)
       IN  ring' = IF RingDiscards(yolo_data)
                   THEN RingNextIteration(ring)
                   ELSE [ring EXCEPT !.pc = "imwrite", !.yolo_data = yolo_data]
    /\ UNCHANGED <<poly, split>>

\* The content of a written image file: the sample drawn on it (the
\* colours and the augmentations of the canvas are left out of it).
ImageFile(r) == [cx |-> r.cx, cy |-> r.cy, r_outer |-> r.r_outer]

\* Line 243: cv2.imwrite writes hotspot_<generated_count>.png, or fails and
\* returns False, which the caller does not look at.
RingWriteImage ==
    /\ ring.pc = "imwrite"
    /\ \/ ring' = [ring EXCEPT !.pc = "label",
                     !.images = (ring.generated_count :> ImageFile(ring)) @@ @]
       \/ ring' = [ring EXCEPT !.pc = "label"]
    /\ UNCHANGED <<poly, split>>

\* A label file named after the iteration instead of the count.
RingWriteLabel_ByIteration ==
    /\ ring.pc = "label"
    /\ \/ ring' = [ring EXCEPT !.pc = "count",
                     !.labels = (ring.i :> RingLabelLine(ring.yolo_data)) @@ @]
       \/ ring' = [ring EXCEPT !.pc = "crashed"]
    /\ UNCHANGED <<poly, split>>

\* Lines 244-245: the label file hotspot_<generated_count>.txt; open() or
\* write() raising OSError is not caught and ends the run.
RingWriteLabel ==
    /\ ring.pc = "label"
    /\ \/ ring' = [ring EXCEPT !.pc = "count",
                     !.labels = (ring.generated_count :> RingLabelLine(ring.yolo_data)) @@ @]
       \/ ring' = [ring EXCEPT !.pc = "crashed"]
    /\ UNCHANGED <<poly, split>>

\* Line 247.
RingCount ==
    /\ ring.pc = "count"
    /\ ring' = [RingNextIteration(ring) EXCEPT
                  !.generated_count = ring.generated_count + 1]
    /\ UNCHANGED <<poly, split>>

\* Lines 251-254.
RingReport ==
    /\ ring.pc = "report"
    /\ ring' = [ring EXCEPT !.pc = "done",
                  !.report = IF ring.generated_count < NUM_IMAGES
                             THEN "warning" ELSE "success"]
    /\ UNCHANGED <<poly, split>>

(***************************************************************************)
(* generate_yolo_dataset.py                                                *)
(***************************************************************************)
IMAGE_WIDTH == 640

IMAGE_HEIGHT == 640

MIN_SHAPE_SIZE == 50

MAX_SHAPE_SIZE == 250

\* 5000 in the source; scaled down.
NUM_IMAGES_PER_SHAPE == 1

\* The attempt budget of generate_triangle: 50 in the source (line 243);
\* scaled down.
TriangleAttempts == 3

\* SHAPE_CLASSES in its order; the class id of a shape is its index - 1.
SHAPE_CLASSES == <<"Rectangle", "Square", "Circle", "Triangle">>

ClassId(shape) == shape - 1

\* BBOX_PADDING_PERCENTAGE = 0.07 = PadNum / PadDen.  The boxes of
\* calculate_yolo_annotation are kept in units of 1 / PadDen pixel.
PadNum == 7

PadDen == 100

\* Canvases and size policies: the one of the source, and every policy
\* 0 <= min_size <= max_size <= min(W, H), max_size >= 1, min_size <= 2, on
\* every canvas 2..MaxPolyDim x 2..MaxPolyDim.
MaxPolyDim == 3

PolyConfigs ==
    {[W |-> IMAGE_WIDTH, H |-> IMAGE_HEIGHT,
      min_size |-> MIN_SHAPE_SIZE, max_size |-> MAX_SHAPE_SIZE]}
    \cup {c \in [W : 2..MaxPolyDim, H : 2..MaxPolyDim, min_size : 0..2,
                  max_size : 1..MaxPolyDim] :
            c.min_size <= c.max_size /\ c.max_size <= Min(c.W, c.H)}

\* get_triangle_area, doubled: |x1(y2-y3) + x2(y3-y1) + x3(y1-y2)|.
TriangleArea2(p1, p2, p3) ==
    LET d == p1[1] * (p2[2] - p3[2]) + p2[1] * (p3[2] - p1[2])
             + p3[1] * (p1[2] - p2[2])
    IN  IF d < 0 THEN -d ELSE d

get_triangle_area(p1, p2, p3) == <<TriangleArea2(p1, p2, p3), 2>>

\* min_area = (MIN_SHAPE_SIZE * MIN_SHAPE_SIZE) / 10.0
MinArea(min_size) == <<min_size * min_size, 10>>

\* if area > min_area
TriangleAccepted(area, min_area) == RatLt(min_area, area)

\* The padding of the width used on both axes.
EnlargedBox_WidthPad(tight_bbox) ==
    LET pad_w == (tight_bbox[3] - tight_bbox[1]) * PadNum
    IN  <<tight_bbox[1] * PadDen - pad_w, tight_bbox[2] * PadDen - pad_w,
          tight_bbox[3] * PadDen + pad_w, tight_bbox[4] * PadDen + pad_w>>

\* calculate_yolo_annotation, lines 117-126: the tight box enlarged by the
\* padding on each side (in units of 1 / PadDen pixel).
EnlargedBox(tight_bbox) ==
    LET pad_w == (tight_bbox[3] - tight_bbox[1]) * PadNum
        pad_h == (tight_bbox[4] - tight_bbox[2]) * PadNum
    IN  <<tight_bbox[1] * PadDen - pad_w, tight_bbox[2] * PadDen - pad_h,
          tight_bbox[3] * PadDen + pad_w, tight_bbox[4] * PadDen + pad_h>>

\* Lines 128-131.
ClampedBox(e, img_w, img_h) ==
    <<Max(0, e[1]), Max(0, e[2]),
      Min(img_w * PadDen, e[3]), Min(img_h * PadDen, e[4])>>

\* No repair.
RepairedSpan_None(lo, hi, dim) == <<lo, hi>>

\* A repair without the nudge of the lower edge (line 136).
RepairedSpan_NoNudge(lo, hi, dim) ==
    IF hi <= lo
    THEN <<lo, IF lo < dim * PadDen THEN lo + PadDen ELSE dim * PadDen>>
    ELSE <<lo, hi>>

\* Lines 133-136 (and 138-141): the repair of an empty span [lo, hi] on an
\* axis of length dim.
RepairedSpan(lo, hi, dim) ==
    IF hi <= lo
    THEN LET hi1 == IF lo < dim * PadDen THEN lo + PadDen ELSE dim * PadDen
             hi2 == IF hi1 > dim * PadDen THEN dim * PadDen ELSE hi1
             lo2 == IF lo >= hi2
                    THEN (IF hi2 > 0 THEN hi2 - PadDen ELSE 0)
                    ELSE lo
         IN  <<lo2, hi2>>
    ELSE <<lo, hi>>

RepairedBox(f, img_w, img_h) ==
    LET xs == RepairedSpan(f[1], f[3], img_w)
        ys == RepairedSpan(f[2], f[4], img_h)
    IN  <<xs[1], ys[1], xs[2], ys[2]>>

\* The box that is normalized.
FinalBox(tight_bbox, img_w, img_h) ==
    RepairedBox(ClampedBox(EnlargedBox(tight_bbox), img_w, img_h), img_w, img_h)

\* The lower corner published in place of the centre.
NormalizedBox_CornerForm(f, img_w, img_h) ==
    << <<f[1], PadDen * img_w>>,
       <<f[2], PadDen * img_h>>,
       <<f[3] - f[1], PadDen * img_w>>,
       <<f[4] - f[2], PadDen * img_h>> >>

\* Lines 143-151: centre and size as fractions of the image.
NormalizedBox(f, img_w, img_h) ==
    << <<f[1] + f[3], 2 * PadDen * img_w>>,
       <<f[2] + f[4], 2 * PadDen * img_h>>,
       <<f[3] - f[1], PadDen * img_w>>,
       <<f[4] - f[2], PadDen * img_h>> >>

\* calculate_yolo_annotation: the class and the four fields, six decimals.
calculate_yolo_annotation(tight_bbox, class_id, img_w, img_h) ==
    LET n == NormalizedBox(FinalBox(tight_bbox, img_w, img_h), img_w, img_h)
    IN  <<class_id, Format6f(n[1]), Format6f(n[2]), Format6f(n[3]),
          Format6f(n[4])>>

\* The size draws random.randint(MIN_SHAPE_SIZE, MAX_SHAPE_SIZE).
Sizes(p, picked) == randint(p.min_size, p.max_size, {p.min_size} \cup picked)

\* A placement range one position too long.
Placements_OffByOne(p, ws, hs, picked) ==
    UNION {{<<s[1], s[2], x, y>> :
               x \in randint(0, p.W - s[1] + 1, {0} \cup picked),
               y \in randint(0, p.H - s[2] + 1, {0} \cup picked)} : s \in ws \X hs}

\* The draws (width, height, x1, y1) of a window placed in the image:
\* x1 = random.randint(0, IMAGE_WIDTH - width), y1 likewise.
Placements(p, ws, hs, picked) ==
    UNION {{<<s[1], s[2], x, y>> :
               x \in randint(0, p.W - s[1], {0} \cup picked),
               y \in randint(0, p.H - s[2], {0} \cup picked)} : s \in ws \X hs}

\* Some draw of the sizes leaves random.randint an empty range.
PlacementRaises(p, ws, hs) ==
    \/ ws = {}
    \/ hs = {}
    \/ \E w \in ws : p.W - w < 0
    \/ \E h \in hs : p.H - h < 0

\* The corners of the 10,10 - 110,160 rectangle of the specification's
\* scenario are among the draws of generate_rectangle on the 640 canvas.
RectPicked == {10, 100, 150}

PolyIdle ==
    [pc |-> "idle", W |-> 0, H |-> 0, min_size |-> 0, max_size |-> 0,
     shape |-> 1, i |-> 0, attempts |-> 0, points |-> <<>>,
     area |-> <<>>, tight_bbox |-> <<>>, annotation |-> <<>>,
     images |-> {}, labels |-> {}, saved |-> FALSE]

PolyStart(c) ==
    [PolyIdle EXCEPT !.pc = "loop", !.W = c.W, !.H = c.H,
                     !.min_size = c.min_size, !.max_size = c.max_size]

\* The locals of a sample, dead once the next one begins.
PolyLocals(p) ==
    [p EXCEPT !.attempts = 0, !.points = <<>>, !.area = <<>>,
              !.tight_bbox = <<>>, !.annotation = <<>>, !.saved = FALSE]

\* Lines 294-306: the two loops, up to the call of the shape's generator.
PolyLoop ==
    /\ poly.pc = "loop"
    /\ poly' = IF poly.shape > Len(SHAPE_CLASSES)
               THEN [PolyLocals(poly) EXCEPT !.pc = "done"]
               ELSE IF poly.i >= NUM_IMAGES_PER_SHAPE
               THEN [PolyLocals(poly) EXCEPT !.shape = poly.shape + 1, !.i = 0]
               ELSE IF SHAPE_CLASSES[poly.shape] = "Triangle"
               THEN [PolyLocals(poly) EXCEPT !.pc = "tri_loop"]
               ELSE [PolyLocals(poly) EXCEPT !.pc = "shape"]
    /\ UNCHANGED <<ring, split>>

\* generate_rectangle.
PolyRectangle ==
    /\ poly.pc = "shape"
    /\ SHAPE_CLASSES[poly.shape] = "Rectangle"
    /\ LET ws == Sizes(poly, RectPicked)
           hs == Sizes(poly, RectPicked)
       IN  \/ /\ PlacementRaises(poly, ws, hs)
              /\ poly' = [poly EXCEPT !.pc = "crashed"]
           \/ \E q \in Placements(poly, ws, hs, RectPicked) :
                poly' = [poly EXCEPT !.pc = "annotate",
                           !.tight_bbox = <<q[3], q[4], q[3] + q[1], q[4] + q[2]>>]
    /\ UNCHANGED <<ring, split>>

\* generate_square.
PolySquare ==
    /\ poly.pc = "shape"
    /\ SHAPE_CLASSES[poly.shape] = "Square"
    /\ LET ss == Sizes(poly, {})
       IN  \/ /\ PlacementRaises(poly, ss, ss)
              /\ poly' = [poly EXCEPT !.pc = "crashed"]
           \/ \E q \in Placements(poly, ss, ss, {}) :
                /\ q[1] = q[2]
                /\ poly' = [poly EXCEPT !.pc = "annotate",
                              !.tight_bbox = <<q[3], q[4], q[3] + q[1], q[4] + q[1]>>]
    /\ UNCHANGED <<ring, split>>

\* generate_circle: the radius, then the centre in [radius, W - radius].
PolyCircle ==
    /\ poly.pc = "shape"
    /\ SHAPE_CLASSES[poly.shape] = "Circle"
    /\ LET rs == randint(poly.min_size \div 2, poly.max_size \div 2,
                         {poly.min_size \div 2})
       IN  \/ /\ \/ rs = {}
                 \/ \E r \in rs : r > poly.W - r \/ r > poly.H - r
              /\ poly' = [poly EXCEPT !.pc = "crashed"]
           \/ \E r \in rs :
                \E cx \in randint(r, poly.W - r, {r}), cy \in randint(r, poly.H - r, {r}) :
                  poly' = [poly EXCEPT !.pc = "annotate",
                             !.tight_bbox = <<cx - r, cy - r, cx + r, cy + r>>]
    /\ UNCHANGED <<ring, split>>

\* Vertices drawn up to one pixel beyond the window.
WindowPoints_Beyond(q) ==
    randint(q[3], q[3] + q[1] + 1, {q[3]})
        \X randint(q[4], q[4] + q[2] + 1, {q[4]})

\* The vertices random.randint draws in the window q = (w, h, x, y); of a
\* wide window, its corners and the points 10 pixels below its upper edge.
WindowPoints(q) ==
    randint(q[3], q[3] + q[1], {q[3]})
        \X randint(q[4], q[4] + q[2], {q[4], q[4] + 10})

\* One attempt too many.
TriangleLoopContinues_OneMore(attempts) == attempts <= TriangleAttempts

\* while attempts < 50
TriangleLoopContinues(attempts) == attempts < TriangleAttempts

\* generate_triangle, lines 243-261: one pass of the while loop.  area is
\* the area of the triple just rejected; attempts and area are not read
\* after the break and are cleared there.
PolyTriangleAttempt ==
    /\ poly.pc = "tri_loop"
    /\ TriangleLoopContinues(poly.attempts)
    /\ LET ss == Sizes(poly, {})
       IN  \/ /\ PlacementRaises(poly, ss, ss)
              /\ poly' = [poly EXCEPT !.pc = "crashed"]
           \/ \E q \in Placements(poly, ss, ss, {}) :
                \E p1 \in WindowPoints(q), p2 \in WindowPoints(q),
                   p3 \in WindowPoints(q) :
                  poly' = IF TriangleAccepted(get_triangle_area(p1, p2, p3),
                                              MinArea(poly.min_size))
                          THEN [poly EXCEPT !.pc = "tri_bbox", !.attempts = 0,
                                            !.area = <<>>,
                                            !.points = <<p1, p2, p3>>]
                          ELSE [poly EXCEPT !.attempts = poly.attempts + 1,
                                            !.area = get_triangle_area(p1, p2, p3)]
    /\ UNCHANGED <<ring, split>>

\* Lines 263-274: the loop ended with no triangle accepted; the isosceles
\* triangle of a window drawn afresh.
FallbackTriangle(q) ==
    << <<q[3] + (q[1] \div 2), q[4]>>,
       <<q[3], q[4] + q[2]>>,
       <<q[3] + q[1], q[4] + q[2]>> >>

PolyTriangleFallback ==
    /\ poly.pc = "tri_loop"
    /\ ~TriangleLoopContinues(poly.attempts)
    /\ LET ss == Sizes(poly, {})
       IN  \/ /\ PlacementRaises(poly, ss, ss)
              /\ poly' = [poly EXCEPT !.pc = "crashed"]
           \/ \E q \in Placements(poly, ss, ss, {}) :
                poly' = [poly EXCEPT !.pc = "tri_bbox", !.area = <<>>,
                                     !.points = FallbackTriangle(q)]
    /\ UNCHANGED <<ring, split>>

\* Lines 276-281: the polygon is drawn and the envelope of its three
\* vertices returned; points and attempts end with the call.
SeqMin(xs) == CHOOSE x \in Range(xs) : \A y \in Range(xs) : x <= y

SeqMax(xs) == CHOOSE x \in Range(xs) : \A y \in Range(xs) : x >= y

PointsEnvelope(points) ==
    LET x_coords == [k \in DOMAIN points |-> points[k][1]]
        y_coords == [k \in DOMAIN points |-> points[k][2]]
    IN  <<SeqMin(x_coords), SeqMin(y_coords), SeqMax(x_coords), SeqMax(y_coords)>>

PolyTriangleBBox ==
    /\ poly.pc = "tri_bbox"
    /\ poly' = [poly EXCEPT !.pc = "annotate", !.attempts = 0, !.points = <<>>,
                  !.tight_bbox = PointsEnvelope(poly.points)]
    /\ UNCHANGED <<ring, split>>

\* Lines 307-309.
PolyAnnotate ==
    /\ poly.pc = "annotate"
    /\ poly' = [poly EXCEPT !.pc = "save",
                  !.annotation = calculate_yolo_annotation(
                      poly.tight_bbox, ClassId(poly.shape), poly.W, poly.H)]
    /\ UNCHANGED <<ring, split>>

\* The file name <shape>_<i+1>.
PolyFileName(p) == <<SHAPE_CLASSES[p.shape], p.i + 1>>

\* Lines 311-314: image.save writes the image, or raises, which nothing
\* catches.
PolySaveImage ==
    /\ poly.pc = "save"
    /\ \/ poly' = [poly EXCEPT !.pc = "label", !.saved = TRUE,
                     !.images = @ \cup {PolyFileName(poly)}]
       \/ poly' = [poly EXCEPT !.pc = "crashed"]
    /\ UNCHANGED <<ring, split>>

\* Lines 316-319: the label file, holding the annotation, or open() /
\* write() raising.  Back at the loop, annotation is the line just written.
PolyWriteLabel ==
    /\ poly.pc = "label"
    /\ \/ poly' = [poly EXCEPT !.pc = "loop", !.i = poly.i + 1,
                     !.labels = @ \cup {PolyFileName(poly)}]
       \/ poly' = [poly EXCEPT !.pc = "crashed"]
    /\ UNCHANGED <<ring, split>>

(***************************************************************************)
(* split_dataset.py: the train/val partitioner.                            *)
(*                                                                         *)
(* A file is <<base name, extension>>.  The source directories hold the    *)
(* images 1..n and any subset of their labels; the output tree holds, per  *)
(* split, the names copied into images/ and labels/ (a copy takes the      *)
(* content of the unchanged source file, so a name determines its          *)
(* content).                                                               *)
(***************************************************************************)
\* TRAIN_RATIO = 0.8, as the fraction 8/10.
TRAIN_RATIO == <<8, 10>>

\* At most MaxFiles images in the source directory.
MaxFiles == 3

\* At most MaxFaults copy operations raise in one run.
MaxFaults == 1

Png(base) == <<base, "png">>

Txt(base) == <<base, "txt">>

get_corresponding_label_file(image_path) == Txt(image_path[1])

\* glob.glob returns the *.png files in the order of the file system: the
\* rotations of the ascending order and the descending order are explored.
Listings(images) ==
    LET n == Cardinality(images)
    IN  IF n = 0 THEN {<<>>}
        ELSE {[i \in 1..n |-> Png(((i + k - 1) % n) + 1)] : k \in 0..(n - 1)}
             \cup {[i \in 1..n |-> Png(n + 1 - i)]}

\* random.seed(42); random.shuffle(x) on a list of n items: position i of
\* the result holds the item that was at position SeededOrder(n)[i]
\* (CPython's Mersenne Twister and Fisher-Yates shuffle, tabulated for the
\* lengths explored).
SeededOrder(n) ==
    CASE n = 0 -> <<>>
      [] n = 1 -> <<1>>
      [] n = 2 -> <<2, 1>>
      [] n = 3 -> <<2, 1, 3>>
      [] n = 4 -> <<3, 2, 4, 1>>
      [] n = 5 -> <<4, 2, 3, 5, 1>>
      [] n = 6 -> <<4, 2, 3, 5, 1, 6>>
      [] n = 1000 ->
         <<
           777, 508, 896, 923, 34, 484, 86, 751, 355, 524, 185, 810, 419,
           616, 683, 502, 761, 50, 733, 337, 451, 791, 351, 468, 623, 477,
           615, 555, 366, 771, 631, 941, 798, 497, 925, 370, 597, 721, 54,
           427, 57, 265, 773, 186, 467, 790, 175, 151, 742, 114, 429, 966,
           19, 190, 415, 590, 667, 764, 222, 587, 582, 300, 639, 387, 365,
           880, 335, 17, 203, 2, 39, 291, 494, 248, 507, 897, 714, 892, 77,
           912, 793, 509, 178, 843, 201, 766, 910, 294, 539, 25, 695, 211,
           425, 529, 35, 929, 399, 608, 299, 849, 669, 283, 940, 945, 607,
           960, 935, 732, 288, 528, 808, 230, 437, 29, 375, 820, 317, 561,
           242, 150, 517, 418, 661, 199, 586, 326, 824, 703, 950, 516, 865,
           837, 878, 360, 595, 789, 189, 67, 356, 800, 903, 921, 943, 331,
           728, 397, 464, 394, 312, 681, 745, 922, 462, 523, 632, 491, 196,
           257, 694, 741, 578, 158, 613, 393, 970, 689, 362, 817, 402, 93,
           918, 490, 452, 252, 654, 770, 671, 130, 638, 992, 343, 309, 137,
           89, 328, 476, 982, 851, 893, 376, 179, 27, 350, 500, 475, 618,
           698, 51, 212, 382, 884, 174, 148, 420, 962, 149, 976, 80, 776,
           303, 996, 526, 775, 232, 626, 801, 562, 510, 841, 495, 120, 478,
           145, 30, 911, 122, 606, 62, 872, 573, 6, 927, 640, 440, 730, 194,
           753, 627, 572, 18, 743, 915, 511, 574, 139, 192, 5, 444, 21, 214,
           65, 412, 302, 334, 193, 665, 263, 648, 811, 233, 796, 682, 805,
           483, 361, 839, 237, 628, 958, 583, 273, 202, 14, 428, 240, 85,
           533, 173, 290, 486, 330, 684, 319, 455, 250, 847, 280, 456, 902,
           762, 548, 181, 558, 629, 424, 844, 11, 200, 426, 535, 32, 580,
           405, 278, 445, 772, 373, 723, 401, 79, 538, 576, 549, 711, 42,
           886, 633, 859, 140, 386, 457, 933, 814, 141, 625, 321, 709, 458,
           874, 327, 127, 133, 818, 398, 916, 994, 416, 596, 259, 314, 410,
           163, 305, 287, 645, 636, 354, 69, 679, 834, 936, 680, 720, 238,
           266, 91, 836, 863, 55, 658, 944, 407, 381, 125, 492, 803, 901,
           431, 946, 704, 295, 879, 213, 919, 38, 861, 899, 126, 24, 840,
           977, 102, 116, 436, 951, 121, 385, 48, 172, 318, 325, 881, 264,
           146, 44, 505, 87, 377, 531, 985, 852, 346, 404, 227, 988, 165,
           336, 601, 917, 473, 448, 108, 857, 156, 459, 281, 208, 155, 588,
           758, 986, 384, 802, 649, 807, 537, 504, 738, 560, 545, 357, 207,
           889, 612, 712, 532, 260, 154, 853, 64, 435, 340, 514, 749, 488,
           525, 894, 953, 187, 674, 344, 378, 904, 369, 569, 276, 691, 267,
           783, 938, 534, 23, 543, 98, 296, 461, 198, 708, 262, 311, 980,
           161, 403, 540, 177, 727, 794, 819, 779, 757, 298, 92, 930, 450,
           646, 15, 481, 997, 869, 432, 696, 503, 261, 329, 180, 565, 396,
           496, 36, 443, 928, 660, 637, 99, 338, 13, 685, 117, 447, 408,
           816, 313, 359, 472, 205, 228, 482, 40, 392, 111, 833, 813, 963,
           422, 341, 184, 998, 423, 182, 905, 862, 650, 746, 701, 106, 920,
           652, 367, 620, 906, 316, 43, 131, 441, 152, 589, 37, 153, 677,
           961, 602, 438, 453, 786, 269, 134, 342, 804, 46, 284, 653, 949,
           53, 822, 780, 978, 600, 209, 352, 216, 289, 279, 954, 821, 110,
           119, 942, 138, 107, 307, 973, 9, 823, 310, 557, 744, 635, 292,
           379, 890, 630, 358, 713, 621, 519, 663, 551, 76, 103, 577, 858,
           10, 75, 952, 469, 308, 135, 860, 885, 245, 642, 210, 268, 871,
           536, 579, 846, 969, 84, 41, 609, 593, 854, 584, 123, 414, 241,
           724, 610, 767, 191, 83, 521, 877, 806, 784, 515, 489, 848, 673,
           59, 322, 692, 556, 594, 838, 223, 304, 717, 159, 499, 570, 898,
           293, 466, 989, 400, 3, 887, 169, 726, 870, 219, 493, 716, 752,
           171, 243, 981, 16, 554, 668, 52, 990, 564, 454, 78, 256, 913,
           718, 188, 830, 144, 967, 815, 706, 924, 255, 112, 348, 413, 63,
           101, 662, 670, 690, 56, 479, 421, 756, 363, 442, 675, 947, 97,
           195, 417, 710, 249, 485, 591, 585, 136, 754, 220, 768, 686, 286,
           244, 527, 729, 339, 873, 70, 875, 61, 647, 725, 73, 8, 968, 735,
           236, 568, 603, 22, 347, 828, 231, 254, 124, 463, 530, 449, 832,
           972, 688, 845, 320, 731, 206, 707, 939, 785, 867, 434, 622, 541,
           856, 170, 563, 487, 676, 132, 129, 546, 71, 498, 750, 88, 934,
           866, 247, 60, 246, 315, 372, 809, 20, 501, 332, 614, 1, 544, 553,
           166, 799, 383, 835, 974, 895, 797, 1000, 306, 641, 109, 520, 183,
           781, 513, 931, 737, 740, 4, 909, 162, 446, 932, 999, 956, 657,
           788, 900, 769, 937, 699, 118, 739, 831, 12, 567, 258, 542, 480,
           964, 391, 395, 66, 611, 957, 697, 812, 959, 643, 157, 113, 49,
           774, 94, 506, 522, 142, 882, 926, 409, 598, 439, 599, 765, 270,
           552, 975, 763, 253, 993, 272, 147, 470, 659, 406, 512, 672, 218,
           323, 736, 581, 217, 68, 275, 411, 324, 825, 983, 842, 235, 58,
           795, 787, 864, 333, 702, 225, 571, 705, 656, 277, 389, 474, 168,
           995, 747, 547, 176, 908, 624, 74, 664, 700, 971, 274, 687, 215,
           364, 380, 167, 374, 855, 651, 465, 955, 948, 104, 888, 979, 876,
           82, 297, 792, 234, 678, 47, 72, 722, 197, 592, 371, 883, 907,
           634, 644, 850, 301, 566, 81, 388, 128, 550, 471, 748, 45, 827,
           271, 619, 353, 868, 368, 100, 390, 95, 991, 345, 782, 221, 160,
           965, 349, 984, 715, 164, 826, 778, 7, 891, 829, 285, 604, 460,
           226, 430, 987, 719, 666, 734, 204, 575, 28, 617, 518, 239, 224,
           96, 31, 33, 433, 605, 90, 559, 914, 759, 693, 105, 755, 143, 229,
           251, 282, 760, 26, 115, 655
         >>

\* A shuffle that is not re-seeded: the second run of the program draws a
\* different order (here the seeded one, reversed).
shuffle_Unseeded(x) ==
    LET n == Len(x)
    IN  IF split.run = 1 THEN [i \in 1..n |-> x[SeededOrder(n)[i]]]
        ELSE [i \in 1..n |-> x[SeededOrder(n)[n + 1 - i]]]

shuffle(x) == [i \in 1..Len(x) |-> x[SeededOrder(Len(x))[i]]]

\* A split index that rounds to nearest instead of truncating.
split_index_Rounded(n) ==
    (2 * n * TRAIN_RATIO[1] + TRAIN_RATIO[2]) \div (2 * TRAIN_RATIO[2])

\* int(len(image_files) * TRAIN_RATIO)
split_index(n) == (n * TRAIN_RATIO[1]) \div TRAIN_RATIO[2]

EmptyTree ==
    [train |-> [images |-> {}, labels |-> {}],
     val   |-> [images |-> {}, labels |-> {}]]

\* What a finished run leaves for the comparison with the next one.
RunSummary(s) ==
    [listing |-> s.listing, failed |-> s.failed,
     train_files |-> s.train_files, val_files |-> s.val_files,
     train_copied |-> s.train_copied, val_copied |-> s.val_copied,
     tree |-> s.tree]

SplitLocals ==
    [listing |-> <<>>, image_files |-> <<>>, train_files |-> <<>>,
     val_files |-> <<>>, pos |-> 0, copied_count |-> 0,
     train_copied |-> 0, val_copied |-> 0, copied |-> EmptyTree,
     failed |-> {}]

SplitFields(pc, images_dir, labels_dir, images, labels, tree, run, prev) ==
    [pc |-> pc, images_dir |-> images_dir, labels_dir |-> labels_dir,
     src_images |-> images, src_labels |-> labels,
     listing |-> SplitLocals.listing,
     image_files |-> SplitLocals.image_files,
     train_files |-> SplitLocals.train_files,
     val_files |-> SplitLocals.val_files,
     pos |-> SplitLocals.pos, copied_count |-> SplitLocals.copied_count,
     train_copied |-> SplitLocals.train_copied,
     val_copied |-> SplitLocals.val_copied,
     \* the output tree on disk, and what this run copied into it
     tree |-> tree, copied |-> SplitLocals.copied,
     \* the copies that raised in this run: <<image, "image" or "label">>
     failed |-> SplitLocals.failed,
     run |-> run, prev |-> prev]

SplitIdle ==
    SplitFields("idle", FALSE, FALSE, {}, {}, EmptyTree, 0,
                RunSummary(SplitLocals @@ [tree |-> EmptyTree]))

\* The program is launched on a source of n images with the labels of the
\* images in labelled, the output tree empty.
SplitStart(n, labelled, images_dir, labels_dir) ==
    SplitFields("start", images_dir, labels_dir,
                {Png(b) : b \in 1..n}, {Txt(b) : b \in labelled},
                EmptyTree, 1, SplitIdle.prev)

\* main, lines 30-49: both source directories must exist; the output
\* directories are created if absent.
SplitMain ==
    /\ split.pc = "start"
    /\ IF ~split.images_dir \/ ~split.labels_dir
       THEN split' = [split EXCEPT !.pc = "done"]
       ELSE split' = [split EXCEPT !.pc = "glob"]
    /\ UNCHANGED <<ring, poly>>

\* lines 51-56: discover the images; none found ends the run.
SplitGlob ==
    /\ split.pc = "glob"
    /\ \E l \in Listings(split.src_images) :
          IF l = <<>>
          THEN split' = [split EXCEPT !.pc = "done"]
          ELSE split' = [split EXCEPT !.pc = "shuffle", !.listing = l,
                           !.image_files = l]
    /\ UNCHANGED <<ring, poly>>

\* lines 58-59
SplitShuffle ==
    /\ split.pc = "shuffle"
    /\ split' = [split EXCEPT !.pc = "slice",
                   !.image_files = shuffle(split.image_files)]
    /\ UNCHANGED <<ring, poly>>

\* lines 61-66
SplitSlice ==
    /\ split.pc = "slice"
    /\ LET n == Len(split.image_files)
           k == split_index(n)
       IN  split' = [split EXCEPT !.pc = "copy_train",
                       !.train_files = SubSeq(split.image_files, 1, k),
                       !.val_files = SubSeq(split.image_files, k + 1, n),
                       !.pos = 1, !.copied_count = 0]
    /\ UNCHANGED <<ring, poly>>

\* The list and the destination of the copy pass under way.
FileList(s) == IF s.pc = "copy_train" THEN s.train_files ELSE s.val_files

Dest(s) == IF s.pc = "copy_train" THEN "train" ELSE "val"

\* A copy pass that counts the image it skips.
SplitCopy_CountsSkipped ==
    /\ split.pc \in {"copy_train", "copy_val"}
    /\ split.pos <= Len(FileList(split))
    /\ get_corresponding_label_file(FileList(split)[split.pos])
          \notin split.src_labels
    /\ split' = [split EXCEPT !.pos = @ + 1, !.copied_count = @ + 1]
    /\ UNCHANGED <<ring, poly>>

\* copy_files, lines 83-96: one iteration of the loop.  The image is
\* skipped when its label is missing; otherwise the image is copied, then
\* the label, and either shutil.copy may raise, which the handler of line
\* 95 only reports.
SplitCopy ==
    /\ split.pc \in {"copy_train", "copy_val"}
    /\ split.pos <= Len(FileList(split))
    /\ LET img_path == FileList(split)[split.pos]
           lbl_path == get_corresponding_label_file(img_path)
           d == Dest(split)
       IN  IF lbl_path \notin split.src_labels
           THEN split' = [split EXCEPT !.pos = @ + 1]
           ELSE \/ split' = [split EXCEPT !.pos = @ + 1,
                               !.copied_count = @ + 1,
                               !.tree[d].images = @ \cup {img_path},
                               !.tree[d].labels = @ \cup {lbl_path},
                               !.copied[d].images = @ \cup {img_path},
                               !.copied[d].labels = @ \cup {lbl_path}]
                \/ /\ Cardinality(split.failed) < MaxFaults
                   /\ split' = [split EXCEPT !.pos = @ + 1,
                                  !.failed = @ \cup {<<img_path, "image">>}]
                \/ /\ Cardinality(split.failed) < MaxFaults
                   /\ split' = [split EXCEPT !.pos = @ + 1,
                                  !.tree[d].images = @ \cup {img_path},
                                  !.copied[d].images = @ \cup {img_path},
                                  !.failed = @ \cup {<<img_path, "label">>}]
    /\ UNCHANGED <<ring, poly>>

\* lines 98, 101-102
SplitTrainCopied ==
    /\ split.pc = "copy_train"
    /\ split.pos > Len(split.train_files)
    /\ split' = [split EXCEPT !.pc = "copy_val",
                   !.train_copied = split.copied_count,
                   !.pos = 1, !.copied_count = 0]
    /\ UNCHANGED <<ring, poly>>

\* lines 98, 105-116
SplitValCopied ==
    /\ split.pc = "copy_val"
    /\ split.pos > Len(split.val_files)
    /\ split' = [split EXCEPT !.pc = "done",
                   !.val_copied = split.copied_count,
                   !.pos = 0, !.copied_count = 0]
    /\ UNCHANGED <<ring, poly>>

\* lines 118-119: the program is run a second time on the same source and
\* on the output tree the first run left.
SplitRerun ==
    /\ split.pc = "done"
    /\ split.run = 1
    /\ split' = SplitFields("start", split.images_dir, split.labels_dir,
                            split.src_images, split.src_labels,
                            split.tree, 2, RunSummary(split))
    /\ UNCHANGED <<ring, poly>>

(***************************************************************************)
(* Specifications: one program runs, the other two stay idle.              *)
(***************************************************************************)
InitRing ==
    /\ \E c \in Canvases : ring = RingStart(c[1], c[2])
    /\ poly = PolyIdle
    /\ split = SplitIdle

NextRing ==
    \/ RingLoop
    \/ RingSolve
    \/ RingRadii
    \/ RingDraw
    \/ RingBBox
    \/ RingWarp
    \/ RingBlur
    \/ RingYolo
    \/ RingWriteImage
    \/ RingWriteLabel
    \/ RingCount
    \/ RingReport

SpecRing == InitRing /\ [][NextRing]_vars

InitPoly ==
    /\ \E c \in PolyConfigs : poly = PolyStart(c)
    /\ ring = RingIdle
    /\ split = SplitIdle

NextPoly ==
    \/ PolyLoop
    \/ PolyRectangle
    \/ PolySquare
    \/ PolyCircle
    \/ PolyTriangleAttempt
    \/ PolyTriangleFallback
    \/ PolyTriangleBBox
    \/ PolyAnnotate
    \/ PolySaveImage
    \/ PolyWriteLabel

SpecPoly == InitPoly /\ [][NextPoly]_vars

\* Either generator.
SpecGen == (InitRing \/ InitPoly) /\ [][NextRing \/ NextPoly]_vars

\* The partitioner, run twice.
InitSplit ==
    /\ \E n \in 0..MaxFiles : \E labelled \in SUBSET (1..n) :
       \E images_dir, labels_dir \in BOOLEAN :
          /\ ~images_dir => n = 0
          /\ ~labels_dir => labelled = {}
          /\ split = SplitStart(n, labelled, images_dir, labels_dir)
    /\ ring = RingIdle
    /\ poly = PolyIdle

NextSplit ==
    \/ SplitMain
    \/ SplitGlob
    \/ SplitShuffle
    \/ SplitSlice
    \/ SplitCopy
    \/ SplitTrainCopied
    \/ SplitValCopied
    \/ SplitRerun

SpecSplit == InitSplit /\ [][NextSplit]_vars

\* Discovery, shuffle and split alone (lines 30-66), on the small sources
\* and on a source of 1000 labelled images.
InitPartition ==
    \/ InitSplit
    \/ /\ split = SplitStart(1000, 1..1000, TRUE, TRUE)
       /\ ring = RingIdle
       /\ poly = PolyIdle

NextPartition ==
    \/ SplitMain
    \/ SplitGlob
    \/ SplitShuffle
    \/ SplitSlice

SpecPartition == InitPartition /\ [][NextPartition]_vars

\* calculate_yolo_annotation called on any tight box with integer corners,
\* x_min <= x_max and y_min <= y_max, that lies within AnnotReach pixels of
\* a canvas of 1..AnnotDim x 1..AnnotDim: inside it, across its edges or
\* outside it.
AnnotDim == 3

AnnotReach == 2

AnnotBoxes(w, h) ==
    {b \in ((-AnnotReach)..(w + AnnotReach)) \X ((-AnnotReach)..(h + AnnotReach))
            \X ((-AnnotReach)..(w + AnnotReach)) \X ((-AnnotReach)..(h + AnnotReach)) :
        b[1] <= b[3] /\ b[2] <= b[4]}

InitAnnotate ==
    /\ \E w \in 1..AnnotDim, h \in 1..AnnotDim : \E b \in AnnotBoxes(w, h) :
          poly = [PolyIdle EXCEPT !.pc = "annotate", !.W = w, !.H = h,
                                  !.tight_bbox = b]
    /\ ring = RingIdle
    /\ split = SplitIdle

NextAnnotate == PolyAnnotate

SpecAnnotate == InitAnnotate /\ [][NextAnnotate]_vars

(***************************************************************************)
(* Claims about the ring generator.                                        *)
(***************************************************************************)
\* The steps of an iteration at which r_outer, cx and cy are drawn.
RingSolved ==
    ring.pc \in {"radii", "draw", "bbox", "warp", "blur", "yolo", "imwrite",
                 "label", "count"}

\* The steps at which visible_bbox is computed.
RingBoxed == ring.pc \in {"warp", "blur", "yolo", "imwrite", "label", "count"}

\* The steps at which yolo_data is computed and kept.
RingAnnotated == ring.pc \in {"imwrite", "label", "count"}

OuterSquare(r) ==
    <<r.cx - r.r_outer, r.cy - r.r_outer, r.cx + r.r_outer, r.cy + r.r_outer>>

\* C1: for every canvas and every radius and centre the solver draws, the
\* box (cx-r, cy-r, cx+r, cy+r) lies within [0,W] x [0,H], and the box
\* calculate_visible_bbox returns is that box: no clamp changes a coordinate.
C1_BoxInsideCanvas ==
    /\ RingSolved =>
          /\ 0 <= ring.cx - ring.r_outer
          /\ 0 <= ring.cy - ring.r_outer
          /\ ring.cx + ring.r_outer <= ring.W
          /\ ring.cy + ring.r_outer <= ring.H
    /\ RingBoxed => ring.visible_bbox = OuterSquare(ring)

\* A box computed for a sample that touches the right and the top edge of
\* a canvas wider than the sample.
C1_Witness ==
    /\ ring.pc = "warp"
    /\ ring.r_outer > 0
    /\ ring.cx + ring.r_outer = ring.W
    /\ ring.cy - ring.r_outer = 0
    /\ ring.cx - ring.r_outer > 0

\* C6: the loop never begins more than 2 x NUM_IMAGES iterations and
\* generated_count never exceeds NUM_IMAGES; every step of the program
\* lowers a natural-number measure, so every run ends; no iteration runs
\* once NUM_IMAGES samples are counted; a run whose loop ends short of
\* NUM_IMAGES ends with the warning.
RingStepRank ==
    [loop |-> 12, solve |-> 11, radii |-> 10, draw |-> 9, bbox |-> 8,
     warp |-> 7, blur |-> 6, yolo |-> 5, imwrite |-> 4, label |-> 3,
     count |-> 2, report |-> 1, done |-> 0, crashed |-> 0, idle |-> 0]

RingMeasure(r) == 13 * (2 * NUM_IMAGES - r.i) + RingStepRank[r.pc]

C6_LoopBounded ==
    /\ [](/\ ring.i <= 2 * NUM_IMAGES
          /\ ring.generated_count <= NUM_IMAGES
          /\ RingMeasure(ring) >= 0
          /\ ring.pc \notin {"loop", "report", "done", "crashed"}
                => ring.generated_count < NUM_IMAGES
          /\ ring.pc = "done" /\ ring.generated_count < NUM_IMAGES
                => ring.report = "warning"
          /\ ring.pc = "done" /\ ring.generated_count >= NUM_IMAGES
                => ring.report = "success")
    /\ [][RingMeasure(ring') < RingMeasure(ring)]_vars

\* A run that used all 2 x NUM_IMAGES iterations, every sample rejected,
\* and ended with the warning.
C6_Witness ==
    /\ ring.pc = "done"
    /\ ring.i = 2 * NUM_IMAGES
    /\ ring.generated_count = 0
    /\ ring.report = "warning"

\* C10: the box of a sample is the circumscribing square of the outer
\* ring whatever the inner radii and the colours are, its annotation is
\* centre (cx/W, cy/H), size (2r/W, 2r/H); on the 640 x 640 canvas, r = 200
\* at (320, 320) gives (120,120,520,520) and (0.5, 0.5, 0.625, 0.625).
ScenarioA(r) ==
    r.W = 640 /\ r.H = 640 /\ r.r_outer = 200 /\ r.cx = 320 /\ r.cy = 320

C10_OuterSquareAnnotation ==
    /\ RingBoxed => ring.visible_bbox = OuterSquare(ring)
    /\ RingAnnotated =>
          /\ ring.yolo_data[1] = CLASS_ID
          /\ RatEq(ring.yolo_data[2], <<ring.cx, ring.W>>)
          /\ RatEq(ring.yolo_data[3], <<ring.cy, ring.H>>)
          /\ RatEq(ring.yolo_data[4], <<2 * ring.r_outer, ring.W>>)
          /\ RatEq(ring.yolo_data[5], <<2 * ring.r_outer, ring.H>>)
    /\ RingAnnotated /\ ScenarioA(ring) =>
          /\ ring.visible_bbox = <<120, 120, 520, 520>>
          /\ RatEq(ring.yolo_data[2], <<5, 10>>)
          /\ RatEq(ring.yolo_data[3], <<5, 10>>)
          /\ RatEq(ring.yolo_data[4], <<625, 1000>>)
          /\ RatEq(ring.yolo_data[5], <<625, 1000>>)
          /\ RingLabelLine(ring.yolo_data)
                = <<0, 500000, 500000, 625000, 625000>>

\* The sample of the scenario, annotated, drawn with the second colour order.
C10_Witness ==
    /\ ring.pc = "imwrite"
    /\ ScenarioA(ring)
    /\ ring.actual_radii = <<200, 160, 120, 80, 40>>
    /\ ring.image.circles[1] = <<200, 4>>

(***************************************************************************)
(* Claims about the two generators.                                        *)
(***************************************************************************)
\* A label line whose width and height are positive and whose four fields
\* lie in [0, 1] (in millionths).
ValidLine(l) ==
    /\ l[4] > 0
    /\ l[5] > 0
    /\ \A k \in 2..5 : 0 <= l[k] /\ l[k] <= 1000000

\* An annotation of to_yolo_format with positive size, all fields in [0, 1].
ValidYolo(y) ==
    /\ RatLt(<<0, 1>>, y[4])
    /\ RatLt(<<0, 1>>, y[5])
    /\ \A k \in 2..5 : RatLe(<<0, 1>>, y[k]) /\ RatLe(y[k], <<1, 1>>)

\* The polygon generator has just written poly.annotation to a label file.
PolyPersisted == poly.pc = "loop" /\ poly.annotation # <<>>

\* C2: every record written to a label file by either generator has
\* width > 0, height > 0 and its four fields in [0, 1]; no record with a
\* width or height <= 0 reaches a write.
C2_WrittenRecordsValid ==
    /\ \A k \in DOMAIN ring.labels : ValidLine(ring.labels[k])
    /\ ring.pc \in {"imwrite", "label", "count"} =>
          /\ ValidYolo(ring.yolo_data)
          /\ ValidLine(RingLabelLine(ring.yolo_data))
    /\ poly.pc \in {"save", "label"} => ValidLine(poly.annotation)
    /\ PolyPersisted => ValidLine(poly.annotation)

\* A label written by the polygon generator for a shape of width 0, its box
\* repaired to a span of one pixel.
C2_Witness ==
    /\ PolyPersisted
    /\ poly.tight_bbox[1] = poly.tight_bbox[3]
    /\ PolyFileName([poly EXCEPT !.i = poly.i - 1]) \in poly.labels

\* C7: a failed write of the image or of the label does not abort the
\* batch; the sample is skipped (it is not counted and leaves no label
\* without its image) and the loop goes on.
C7_FailedWriteSkipsSample ==
    /\ ring.pc # "crashed"
    /\ poly.pc # "crashed"
    /\ ring.pc = "loop" =>
          /\ DOMAIN ring.labels = 0..(ring.generated_count - 1)
          /\ DOMAIN ring.images = DOMAIN ring.labels

\* C8: generate_triangle makes at most TriangleAttempts attempts; each pass
\* of its loop either accepts a triangle or uses up one attempt; with the
\* budget used up the next step builds the isosceles triangle of a fresh
\* window (apex top-centre, base along the bottom) with no further attempt;
\* the call never raises, so a triangle is returned on every call.
IsFallbackOf(points, p) ==
    /\ Len(points) = 3
    /\ points[2][2] = points[3][2]
    /\ points[1][2] <= points[2][2]
    /\ points[2][1] <= points[3][1]
    /\ points[1][1] = points[2][1] + ((points[3][1] - points[2][1]) \div 2)
    /\ (points[3][1] - points[2][1]) \in p.min_size..p.max_size
    /\ (points[2][2] - points[1][2]) \in p.min_size..p.max_size
    /\ 0 <= points[2][1] /\ points[3][1] <= p.W
    /\ 0 <= points[1][2] /\ points[2][2] <= p.H

C8_TriangleTerminates ==
    /\ [](/\ poly.attempts <= TriangleAttempts
          /\ poly.pc = "tri_loop" => ENABLED NextPoly
          /\ poly.pc = "tri_bbox" => Len(poly.points) = 3)
    /\ [][poly.pc = "tri_loop" =>
            /\ poly'.pc \in {"tri_loop", "tri_bbox"}
            /\ poly'.pc = "tri_loop" =>
                  /\ poly'.attempts = poly.attempts + 1
                  /\ poly.attempts < TriangleAttempts
            /\ poly.attempts >= TriangleAttempts =>
                  /\ poly'.pc = "tri_bbox"
                  /\ poly'.attempts = poly.attempts
                  /\ IsFallbackOf(poly'.points, poly)]_vars

\* The fallback triangle built on the 640 x 640 canvas after the budget
\* was used up.
C8_Witness ==
    /\ poly.pc = "tri_bbox"
    /\ poly.attempts = TriangleAttempts
    /\ poly.W = IMAGE_WIDTH
    /\ IsFallbackOf(poly.points, poly)

\* C9 as stated: the box (10,10,110,160) with 7% padding on the 640 x 640
\* canvas is enlarged to (3, 6.5, 117, 166.5), clamping leaves it
\* unchanged, and the result is centre (0.09375, 0.134765625), size
\* (0.178125, 0.25).
ScenarioB ==
    /\ poly.pc \in {"annotate", "save", "label"}
    /\ poly.W = 640
    /\ poly.H = 640
    /\ poly.tight_bbox = <<10, 10, 110, 160>>

C9_AsStated ==
    ScenarioB =>
      LET e == EnlargedBox(poly.tight_bbox)
          f == FinalBox(poly.tight_bbox, poly.W, poly.H)
          n == NormalizedBox(f, poly.W, poly.H)
      IN  /\ e = <<300, 650, 11700, 16650>>
          /\ ClampedBox(e, poly.W, poly.H) = e
          /\ RatEq(n[1], <<3, 32>>)
          /\ RatEq(n[2], <<69, 512>>)
          /\ RatEq(n[3], <<57, 320>>)
          /\ RatEq(n[4], <<1, 4>>)

\* C9, amended: the box is enlarged to (3, -0.5, 117, 170.5) (the padding
\* is 7 across and 10.5 down), clamping raises y_min to 0 and changes
\* nothing else, and the result is centre (0.09375, 0.133203125), size
\* (0.178125, 0.26640625), written as 0.093750 0.133203 0.178125 0.266406.
C9_Amended ==
    ScenarioB =>
      LET e == EnlargedBox(poly.tight_bbox)
          f == FinalBox(poly.tight_bbox, poly.W, poly.H)
          n == NormalizedBox(f, poly.W, poly.H)
      IN  /\ e = <<300, -50, 11700, 17050>>
          /\ ClampedBox(e, poly.W, poly.H) = <<300, 0, 11700, 17050>>
          /\ f = <<300, 0, 11700, 17050>>
          /\ RatEq(n[1], <<3, 32>>)
          /\ RatEq(n[2], <<341, 2560>>)
          /\ RatEq(n[3], <<57, 320>>)
          /\ RatEq(n[4], <<341, 1280>>)
          /\ poly.pc \in {"save", "label"} =>
                poly.annotation = <<0, 93750, 133203, 178125, 266406>>

\* The rectangle of the scenario, annotated.
C9_Witness ==
    /\ ScenarioB
    /\ poly.pc = "save"
    /\ poly.shape = 1

(***************************************************************************)
(* Claims about the partitioner.                                           *)
(***************************************************************************)
\* C3: after any prefix of the copy pass, copy failures included, every
\* image this run copied into images/ of a split has its label in labels/
\* of the same split, and no image whose label is missing was copied.
C3_CopiedImagesHaveLabels ==
    \A d \in {"train", "val"} : \A img \in split.copied[d].images :
        /\ get_corresponding_label_file(img) \in split.copied[d].labels
        /\ get_corresponding_label_file(img) \in split.src_labels

Sliced == split.pc = "copy_train" /\ split.pos = 1

\* C4: train is the first floor(0.8 * N) files of the shuffled list and val
\* the rest; the two are disjoint and together are the discovered files;
\* 1000 files split into 800 and 200.
C4_SplitAtFloor ==
    Sliced =>
        LET N == Len(split.listing)
            k == (N * 8) \div 10
            train == Range(split.train_files)
            val == Range(split.val_files)
        IN  /\ split.image_files
               = [i \in 1..N |-> split.listing[SeededOrder(N)[i]]]
            /\ split.train_files = SubSeq(split.image_files, 1, k)
            /\ split.val_files = SubSeq(split.image_files, k + 1, N)
            /\ Cardinality(train) = k
            /\ Cardinality(val) = N - k
            /\ train \cap val = {}
            /\ train \cup val = split.src_images
            /\ N = 1000 => Len(split.train_files) = 800
                           /\ Len(split.val_files) = 200

\* The 1000 files of Scenario C, split.
C4_Witness ==
    /\ Sliced
    /\ Len(split.listing) = 1000
    /\ Len(split.train_files) = 800
    /\ Len(split.val_files) = 200

SecondRunDone ==
    /\ split.run = 2
    /\ split.pc = "done"
    /\ split.listing = split.prev.listing

SameResult ==
    /\ split.train_files = split.prev.train_files
    /\ split.val_files = split.prev.val_files
    /\ split.train_copied = split.prev.train_copied
    /\ split.val_copied = split.prev.val_copied
    /\ split.tree = split.prev.tree

Annotated == poly.pc = "save" /\ poly.annotation # <<>>

\* The padded and clamped box of the sample, and the box after the repair
\* (units of 1 / PadDen pixel).
PolyClamped == ClampedBox(EnlargedBox(poly.tight_bbox), poly.W, poly.H)

PolyFinal == FinalBox(poly.tight_bbox, poly.W, poly.H)

\* An axis of the clamped box that is empty comes out of the repair with a
\* span of at least one pixel, inside [0, dim], no wider than dim.
SpanRepaired(c_lo, c_hi, f_lo, f_hi, dim) ==
    c_hi <= c_lo =>
        /\ f_hi - f_lo >= PadDen
        /\ 0 <= f_lo
        /\ f_hi <= dim * PadDen
        /\ f_hi - f_lo <= dim * PadDen

\* C11: for every tight box (inside or outside the canvas) and every canvas
\* W, H >= 1, an axis on which the padded and clamped box is empty is
\* repaired to a span of at least 1 pixel, within the canvas and no wider
\* than the canvas.
C11_RepairGivesPixelSpan ==
    Annotated =>
        /\ SpanRepaired(PolyClamped[1], PolyClamped[3],
                        PolyFinal[1], PolyFinal[3], poly.W)
        /\ SpanRepaired(PolyClamped[2], PolyClamped[4],
                        PolyFinal[2], PolyFinal[4], poly.H)

\* A box right of the canvas, with padding: the clamped box is empty on
\* the x axis and its lower edge lies beyond the canvas.
C11_Witness ==
    /\ Annotated
    /\ poly.tight_bbox[1] > poly.W
    /\ poly.tight_bbox[3] > poly.tight_bbox[1]
    /\ PolyClamped[3] < PolyClamped[1]
    /\ PolyFinal[3] - PolyFinal[1] = PadDen

(***************************************************************************)
(* Claims about the placement of the polygon generator's shapes.           *)
(***************************************************************************)
\* A rectangle, square or circle has just been placed.
Placed ==
    /\ poly.pc = "annotate"
    /\ SHAPE_CLASSES[poly.shape] \in {"Rectangle", "Square", "Circle"}

\* A draw of a size or of a position raised on an empty range.
PlacementCrashed == poly.pc = "crashed" /\ poly.annotation = <<>>

TightWidth == poly.tight_bbox[3] - poly.tight_bbox[1]

TightHeight == poly.tight_bbox[4] - poly.tight_bbox[2]

TightInCanvas ==
    /\ 0 <= poly.tight_bbox[1]
    /\ poly.tight_bbox[1] <= poly.tight_bbox[3]
    /\ poly.tight_bbox[3] <= poly.W
    /\ 0 <= poly.tight_bbox[2]
    /\ poly.tight_bbox[2] <= poly.tight_bbox[4]
    /\ poly.tight_bbox[4] <= poly.H

\* A shape as wide (high) as the canvas sits at the one position 0.
FullSpanAtOrigin ==
    /\ TightWidth = poly.W => poly.tight_bbox[1] = 0
    /\ TightHeight = poly.H => poly.tight_bbox[2] = 0

\* A circle of the largest radius max_size // 2.
LargestCircle ==
    /\ Placed
    /\ SHAPE_CLASSES[poly.shape] = "Circle"
    /\ TightWidth = 2 * (poly.max_size \div 2)

\* C12 as stated: a rectangle or square side equal to the canvas dimension,
\* or a circle of the largest radius under a policy whose max_size is the
\* canvas dimension, has exactly one position on that axis; no range is
\* empty and no position is out of range.
C12_AsStated ==
    /\ ~PlacementCrashed
    /\ Placed => TightInCanvas /\ FullSpanAtOrigin
    /\ LargestCircle =>
          /\ poly.max_size = poly.W => poly.tight_bbox[1] = 0
          /\ poly.max_size = poly.H => poly.tight_bbox[2] = 0

\* C12, amended: a rectangle side, square side or circle diameter 2 * radius
\* equal to the canvas dimension has exactly one position on that axis; a
\* circle of the largest radius max_size // 2 under a max_size equal to an
\* odd canvas dimension has the two positions 0 and 1; no range is empty
\* and no position is out of range.
C12_Amended ==
    /\ ~PlacementCrashed
    /\ Placed => TightInCanvas /\ FullSpanAtOrigin
    /\ LargestCircle =>
          /\ (poly.max_size = poly.W /\ poly.W % 2 = 1)
                => poly.tight_bbox[1] \in {0, 1}
          /\ (poly.max_size = poly.H /\ poly.H % 2 = 1)
                => poly.tight_bbox[2] \in {0, 1}

\* A rectangle as wide as the canvas and lower than it.
C12_Witness ==
    /\ Placed
    /\ SHAPE_CLASSES[poly.shape] = "Rectangle"
    /\ poly.max_size = poly.W
    /\ TightWidth = poly.W
    /\ TightHeight < poly.H
    /\ poly.tight_bbox[1] = 0

(***************************************************************************)
(* More claims about the ring generator.                                   *)
(***************************************************************************)
\* random.randint raised in the solver (a crash at the label write leaves
\* the annotation behind).
SolverCrashed == ring.pc = "crashed" /\ ring.yolo_data = <<>>

\* C13: on every canvas W, H >= 1 the radius range [min_r_outer,
\* max_possible_r_outer] and, for each radius of it, the centre ranges
\* [r, W - r] and [r, H - r] are non-empty, so no draw raises; when
\* max(1, floor(0.1 * min(W, H))) exceeds floor(min(W, H) / 2) the only
\* radius drawn is floor(min(W, H) / 2).
C13_SolverRangesNonEmpty ==
    LET m == Min(ring.W, ring.H)
        nominal == Max(1, m \div 10)
        r_max == m \div 2
        r_min == IF nominal > r_max THEN r_max ELSE nominal
    IN  /\ ~SolverCrashed
        /\ ring.pc = "solve" =>
              /\ r_min <= r_max
              /\ \A r \in r_min..r_max : r <= ring.W - r /\ r <= ring.H - r
        /\ RingSolved =>
              /\ r_min <= ring.r_outer /\ ring.r_outer <= r_max
              /\ ring.r_outer <= ring.cx /\ ring.cx <= ring.W - ring.r_outer
              /\ ring.r_outer <= ring.cy /\ ring.cy <= ring.H - ring.r_outer
              /\ nominal > r_max => ring.r_outer = r_max

\* A canvas one pixel wide: the nominal minimum 1 exceeds the maximum 0 and
\* the radius 0 is drawn.
C13_Witness ==
    /\ ring.pc = "radii"
    /\ ring.W = 1
    /\ ring.H > 1
    /\ ring.r_outer = 0
    /\ ring.cy > 0

(***************************************************************************)
(* Round trip of the annotations.                                          *)
(***************************************************************************)
Abs(x) == IF x < 0 THEN -x ELSE x

\* The edges an annotation line (centre c and size s, in millionths) gives
\* back on an axis of dim pixels: (c - s/2) * dim and (c + s/2) * dim, in
\* units of 1 / 2,000,000 pixel.
DenormLo(c, s, dim) == (2 * c - s) * dim

DenormHi(c, s, dim) == (2 * c + s) * dim

\* A denormalized edge lies within one pixel of an edge given in units of
\* 1 / den pixel.
WithinPixel(denorm, edge, den) ==
    Abs(denorm - (2000000 \div den) * edge) <= 2000000

RoundTrips(line, box, den, img_w, img_h) ==
    /\ WithinPixel(DenormLo(line[2], line[4], img_w), box[1], den)
    /\ WithinPixel(DenormLo(line[3], line[5], img_h), box[2], den)
    /\ WithinPixel(DenormHi(line[2], line[4], img_w), box[3], den)
    /\ WithinPixel(DenormHi(line[3], line[5], img_h), box[4], den)

\* The ring generator has just written the label of its sample.
RingLabelled == ring.pc = "count" /\ ring.generated_count \in DOMAIN ring.labels

PolyAnnotationMade == poly.pc \in {"save", "label"} \/ PolyPersisted

RingPipeline ==
    <<"solve", "radii", "draw", "bbox", "warp", "blur", "yolo", "imwrite",
      "label", "count">>

\* A step of the loop body is followed by the next one, unless the sample
\* is given up, the sample is complete, or the run ends on an exception.
RingStepsInOrder ==
    \A k \in 1..Len(RingPipeline) :
        ring.pc = RingPipeline[k] =>
            \/ k < Len(RingPipeline) /\ ring'.pc = RingPipeline[k + 1]
            \/ ring'.pc \in {"loop", "crashed"}

\* The augmentations: the warp is decided at its step and the blur at the
\* step after it, and neither step changes anything but the canvas.
AugmentationsTouchCanvasOnly ==
    /\ ring.pc \in {"warp", "blur"} =>
          /\ ring' = [ring EXCEPT !.pc = ring'.pc, !.image = ring'.image]
          /\ ring'.image.circles = ring.image.circles
    /\ ring'.image.warped /\ ~ring.image.warped => ring.pc = "warp"
    /\ ring'.image.blurred /\ ~ring.image.blurred => ring.pc = "blur"

\* Nothing is augmented before the box of the sample is computed.
BoxBeforeAugmentation ==
    /\ ring.pc \in {"solve", "radii", "draw", "bbox", "warp"} =>
          ~ring.image.warped /\ ~ring.image.blurred
    /\ ring.pc \in {"warp", "blur"} => ring.visible_bbox = OuterSquare(ring)

\* The label written is a function of the geometry drawn by the solver:
\* the same whether or not the warp and the blur fired.
LabelFromGeometry ==
    RingLabelled =>
        ring.labels[ring.generated_count]
          = <<CLASS_ID, Format6f(<<ring.cx, ring.W>>),
              Format6f(<<ring.cy, ring.H>>),
              Format6f(<<2 * ring.r_outer, ring.W>>),
              Format6f(<<2 * ring.r_outer, ring.H>>)>>

\* C15 as stated: each sample goes through solve, draw, annotate, augment,
\* persist in that order; the annotation exists before any augmentation
\* runs; the warp runs before the blur, both change only the canvas, and
\* the annotation written does not depend on which of them fired.
C15_AsStated ==
    /\ [](/\ BoxBeforeAugmentation
          /\ LabelFromGeometry
          /\ ring.pc \in {"warp", "blur"} => ring.yolo_data # <<>>)
    /\ [][RingStepsInOrder /\ AugmentationsTouchCanvasOnly]_vars

\* C15, amended: each sample goes through solve, draw, box, augment,
\* normalize, persist in that order; the absolute box is computed from the
\* geometry before any augmentation runs, and the normalized annotation is
\* computed from that box after the augmentations; the warp runs before
\* the blur, both change only the canvas, and the annotation written does
\* not depend on which of them fired.
C15_Amended ==
    /\ [](/\ BoxBeforeAugmentation
          /\ LabelFromGeometry
          /\ ring.pc \in {"warp", "blur", "yolo"} => ring.yolo_data = <<>>
          /\ ring.pc \in {"imwrite", "label", "count"}
                => ring.yolo_data # <<>>)
    /\ [][RingStepsInOrder /\ AugmentationsTouchCanvasOnly]_vars

\* A sample whose canvas was warped and blurred, its label written.
C15_Witness ==
    /\ RingLabelled
    /\ ring.image.warped
    /\ ring.image.blurred
    /\ Len(ring.image.circles) = NUM_CIRCLES

(***************************************************************************)
(* Counts of the partitioner.                                              *)
(***************************************************************************)
\* The images of a list whose label exists and whose two copies both
\* succeeded in this run.
BothCopied(files) ==
    {img \in Range(files) :
        /\ get_corresponding_label_file(img) \in split.src_labels
        /\ <<img, "image">> \notin split.failed
        /\ <<img, "label">> \notin split.failed}

CopyPassUnderWay ==
    /\ split.pc \in {"copy_train", "copy_val"}
    /\ split.pos <= Len(FileList(split))

\* The image at hand has no label: the step leaves the output tree, the
\* count and the failures alone and moves to the next image.
MissingLabelSkipped ==
    (/\ CopyPassUnderWay
     /\ get_corresponding_label_file(FileList(split)[split.pos])
           \notin split.src_labels)
    => split' = [split EXCEPT !.pos = split.pos + 1]

\* C16: an image whose label is missing is skipped and the pass goes on to
\* the next image; the count of each split is the number of its pairs of
\* which both copies succeeded, during the pass and as reported.
C16_CountsAreCopiedPairs ==
    /\ [](/\ CopyPassUnderWay =>
                split.copied_count
                  = Cardinality(BothCopied(
                        SubSeq(FileList(split), 1, split.pos - 1)))
          /\ split.pc \in {"copy_val", "done"} =>
                split.train_copied
                  = Cardinality(BothCopied(split.train_files))
          /\ split.pc = "done" =>
                split.val_copied = Cardinality(BothCopied(split.val_files)))
    /\ [][MissingLabelSkipped]_vars

\* A finished run whose train split was assigned two images, one of them
\* without a label, and reports one pair; the val pair was copied too.
C16_Witness ==
    /\ split.pc = "done"
    /\ Len(split.train_files) = 2
    /\ \E img \in Range(split.train_files) :
          get_corresponding_label_file(img) \notin split.src_labels
    /\ split.train_copied = 1
    /\ split.val_copied = 1

(***************************************************************************)
(* Tight boxes of the polygon generator.                                   *)
(***************************************************************************)
\* A generator has returned its tight box.
TightBoxReturned == poly.pc \in {"annotate", "save", "label"} \/ PolyPersisted

PolicyBelowCanvas == poly.max_size < Min(poly.W, poly.H)

\* C17: under a size policy with max_size < min(W, H), the tight box every
\* shape generator returns (rectangle, square, circle, triangle, fallback
\* triangle) has 0 <= x_min <= x_max <= W and 0 <= y_min <= y_max <= H, the
\* vertices of a triangle lie in the canvas, and no draw of a size or of a
\* position gets an empty range.
C17_TightBoxInCanvas ==
    PolicyBelowCanvas =>
        /\ ~PlacementCrashed
        /\ TightBoxReturned => TightInCanvas
        /\ poly.pc = "tri_bbox" =>
              \A k \in DOMAIN poly.points :
                  /\ 0 <= poly.points[k][1] /\ poly.points[k][1] <= poly.W
                  /\ 0 <= poly.points[k][2] /\ poly.points[k][2] <= poly.H

\* The box of a triangle that reaches the right edge of the canvas.
C17_Witness ==
    /\ PolicyBelowCanvas
    /\ poly.pc = "annotate"
    /\ SHAPE_CLASSES[poly.shape] = "Triangle"
    /\ poly.tight_bbox[3] = poly.W
    /\ poly.tight_bbox[1] < poly.tight_bbox[3]
    /\ poly.tight_bbox[2] < poly.tight_bbox[4]

(***************************************************************************)
(* The acceptance threshold of generate_triangle.                          *)
(***************************************************************************)
\* A sampled triple has just been rejected; poly.area is its area.
TripleRejected == poly.pc = "tri_loop" /\ poly.area # <<>>

\* C18: a sampled triple is rejected only when its area is below
\* min_size^2 / 10 (a triple of area equal to or above it is accepted), and
\* every triangle returned, sampled or fallback, has area at least
\* min_size^2 / 10.
C18_RejectedOnlyBelowThreshold ==
    /\ TripleRejected => RatLt(poly.area, MinArea(poly.min_size))
    /\ poly.pc = "tri_bbox" =>
          RatLe(MinArea(poly.min_size),
                get_triangle_area(poly.points[1], poly.points[2],
                                  poly.points[3]))

(***************************************************************************)
(* Rejection and drawing order of the ring generator.                      *)
(***************************************************************************)
\* The scaled radii int(factor * r_outer) that are not zero.
UsableRadii(r_outer) ==
    {k \in 1..Len(RADII_FACTORS) : (RADII_FACTORS[k] * r_outer) \div 10 > 0}

\* The iteration at hand has fewer than NUM_CIRCLES usable radii: its step
\* ends it with nothing drawn, nothing written and the count unchanged.
ShortSampleRejected ==
    (/\ ring.pc = "radii"
     /\ Cardinality(UsableRadii(ring.r_outer)) < NUM_CIRCLES)
    => /\ ring'.pc = "loop"
       /\ ring'.i = ring.i + 1
       /\ ring'.generated_count = ring.generated_count
       /\ ring'.images = ring.images
       /\ ring'.labels = ring.labels
       /\ ring.image = BlankImage
       /\ ring'.image = BlankImage

\* The circles are on the canvas.
RingDrawn ==
    ring.pc \in {"bbox", "warp", "blur", "yolo", "imwrite", "label", "count"}

\* C19: an iteration with fewer than NUM_CIRCLES non-zero scaled radii is
\* rejected as a whole, nothing drawn or written, generated_count
\* unchanged; every other iteration draws exactly NUM_CIRCLES circles, in
\* strictly descending radius order, the first of radius r_outer.
C19_RejectOrDrawDescending ==
    /\ [](/\ (ring.pc = "draw" \/ RingDrawn)
                => Cardinality(UsableRadii(ring.r_outer)) = NUM_CIRCLES
          /\ ring.pc \in {"loop", "solve", "radii", "draw"}
                => ring.image.circles = <<>>
          /\ RingDrawn =>
                /\ Len(ring.image.circles) = NUM_CIRCLES
                /\ ring.image.circles[1][1] = ring.r_outer
                /\ \A k \in 1..(NUM_CIRCLES - 1) :
                      ring.image.circles[k][1] > ring.image.circles[k + 1][1]
                /\ ring.image.circles[NUM_CIRCLES][1] > 0)
    /\ [][ShortSampleRejected]_vars

\* Two iterations on the 10 x 10 canvas: one sample written and counted
\* (radius 5), the other rejected (a radius below 5).
C19_Witness ==
    /\ ring.pc = "loop"
    /\ ring.W = 10
    /\ ring.H = 10
    /\ ring.i = 2
    /\ ring.generated_count = 1
    /\ DOMAIN ring.labels = {0}

(***************************************************************************)
(* The files of the ring generator.                                        *)
(***************************************************************************)
\* The indices of the samples counted so far.
Counted == 0..(ring.generated_count - 1)

\* The image of every label on disk is on disk: no cv2.imwrite has failed
\* (the image of a sample is written before its label).
WritesSucceeded ==
    /\ ring.pc # "crashed"
    /\ DOMAIN ring.labels \subseteq DOMAIN ring.images
    /\ ring.pc = "label" => ring.generated_count \in DOMAIN ring.images

\* Between the write of a sample and its count.
RingWriting == ring.pc \in {"label", "count"}

\* A file is written once, under the index generated_count, the image at
\* its step and the label at the next; generated_count moves by +1 only,
\* at the end of an iteration that wrote the label and, writes succeeding,
\* the image of that index.
RingWritesOncePerIndex ==
    /\ ring'.images # ring.images =>
          /\ ring.pc = "imwrite"
          /\ ring.generated_count \notin DOMAIN ring.images
          /\ DOMAIN ring'.images
                = DOMAIN ring.images \cup {ring.generated_count}
    /\ ring'.labels # ring.labels =>
          /\ ring.pc = "label"
          /\ ring.generated_count \notin DOMAIN ring.labels
          /\ DOMAIN ring'.labels
                = DOMAIN ring.labels \cup {ring.generated_count}
    /\ ring'.generated_count # ring.generated_count =>
          /\ ring'.generated_count = ring.generated_count + 1
          /\ ring.pc = "count"
          /\ ring.generated_count \in DOMAIN ring.labels
          /\ WritesSucceeded => ring.generated_count \in DOMAIN ring.images

\* C20: while writes succeed, the samples on disk are the indices
\* 0 .. generated_count - 1, without gap, each with its image and its label
\* under the same index and none written twice; generated_count changes
\* by +1 only, in an iteration that wrote both files.
C20_FilesAreCountedIndices ==
    /\ [](/\ ~RingWriting => DOMAIN ring.labels = Counted
          /\ RingWriting =>
                /\ Counted \subseteq DOMAIN ring.labels
                /\ DOMAIN ring.labels
                      \subseteq Counted \cup {ring.generated_count}
          /\ DOMAIN ring.images \subseteq Counted \cup {ring.generated_count}
          /\ (WritesSucceeded /\ ~RingWriting) =>
                DOMAIN ring.images = Counted)
    /\ [][RingWritesOncePerIndex]_vars

\* NUM_IMAGES samples on disk after more iterations than samples: an
\* iteration was rejected between two that wrote.
C20_Witness ==
    /\ ring.pc = "loop"
    /\ ring.generated_count = NUM_IMAGES
    /\ ring.i > NUM_IMAGES
    /\ DOMAIN ring.images = 0..(NUM_IMAGES - 1)
    /\ DOMAIN ring.labels = 0..(NUM_IMAGES - 1)

====
